---- MODULE Spec2Model ----
\* Verification model of sample.py: the in-memory SFTP ZIP -> CSV -> MongoDB
\* enrichment -> SFTP upload pipeline (main and the functions it calls).
\*
\* Strings (file names, paths, identifiers) are sequences of one-character
\* strings, so that lower(), strip(), endswith(), split() and concatenation are
\* computed as the Python code computes them.
EXTENDS Integers, Sequences, FiniteSets, TLC

\* ------------------------------------------------------------------------
\* Python string primitives
\* ------------------------------------------------------------------------

\* str.lower() on one character (the alphabet the model's names use)
LowerChar(c) ==
  CASE c = "G" -> "g"
    [] c = "Z" -> "z"
    [] c = "I" -> "i"
    [] c = "P" -> "p"
    [] c = "D" -> "d"
    [] OTHER -> c

\* str.lower()
Lower(s) == [i \in 1..Len(s) |-> LowerChar(s[i])]

\* str.endswith(suf)
EndsWith(s, suf) ==
  /\ Len(s) >= Len(suf)
  /\ SubSeq(s, Len(s) - Len(suf) + 1, Len(s)) = suf

\* the `in` operator on strings: sub occurs in s
Contains(s, sub) ==
  \E i \in 0..(Len(s) - Len(sub)) : SubSeq(s, i + 1, i + Len(sub)) = sub

\* whitespace as str.strip() understands it
IsSpace(c) == c = " "

RECURSIVE LStrip(_)
LStrip(s) == IF s # <<>> /\ IsSpace(Head(s)) THEN LStrip(Tail(s)) ELSE s

RECURSIVE RStrip(_)
RStrip(s) ==
  IF s # <<>> /\ IsSpace(s[Len(s)]) THEN RStrip(SubSeq(s, 1, Len(s) - 1)) ELSE s

\* str.strip()
Strip(s) == RStrip(LStrip(s))

RECURSIVE LStripSlash(_)
LStripSlash(s) == IF s # <<>> /\ Head(s) = "/" THEN LStripSlash(Tail(s)) ELSE s

RECURSIVE RStripSlash(_)
RStripSlash(s) ==
  IF s # <<>> /\ s[Len(s)] = "/" THEN RStripSlash(SubSeq(s, 1, Len(s) - 1)) ELSE s

\* str.strip('/')
StripSlash(s) == RStripSlash(LStripSlash(s))

\* str.split('/'): the pieces between slashes, empty pieces included
RECURSIVE SplitSlashAcc(_, _)
SplitSlashAcc(s, cur) ==
  IF s = <<>> THEN <<cur>>
  ELSE IF Head(s) = "/" THEN <<cur>> \o SplitSlashAcc(Tail(s), <<>>)
  ELSE SplitSlashAcc(Tail(s), Append(cur, Head(s)))

SplitSlash(s) == SplitSlashAcc(s, <<>>)

\* os.path.splitext(name)[0]: the name up to its last dot; a name without a
\* dot, or whose only dots lead it, is returned whole
RECURSIVE LastDot(_, _)
LastDot(s, i) ==
  IF i = 0 THEN 0 ELSE IF s[i] = "." THEN i ELSE LastDot(s, i - 1)

AllDots(s, n) == \A j \in 1..n : s[j] = "."

SplitextBase(s) ==
  LET d == LastDot(s, Len(s))
  IN IF d = 0 \/ AllDots(s, d) THEN s ELSE SubSeq(s, 1, d - 1)

\* ------------------------------------------------------------------------
\* Reference store (MongoDB collection) and get_user_data_from_mongo
\* ------------------------------------------------------------------------

\* dict.get(key, default) on a document or mapping
DictGet(d, k, default) == IF k \in DOMAIN d THEN d[k] ELSE default

\* the empty dict {}
EmptyDict == [k \in {} |-> <<>>]

\* d[k] = v on a dict
DictPut(d, k, v) == [x \in (DOMAIN d) \cup {k} |-> IF x = k THEN v ELSE d[x]]

\* the list as a set (membership as `$in` and `not in` test it)
Range(s) == {s[i] : i \in 1..Len(s)}

\* collection.find({'userid': {'$in': userids}}, {'dob': 1, 'email': 1, '_id': 0}):
\* the stored documents whose userid field equals one of the requested values,
\* in store order, each reduced to the fields the inclusion projection lists
ProjectDoc(doc) == [f \in (DOMAIN doc) \cap {"dob", "email"} |-> doc[f]]

RECURSIVE CollectionFind(_, _)
CollectionFind(store, userids) ==
  IF store = <<>> THEN <<>>
  ELSE LET doc == Head(store)
           rest == CollectionFind(Tail(store), userids)
       IN IF "userid" \in DOMAIN doc /\ doc["userid"] \in Range(userids)
          THEN <<ProjectDoc(doc)>> \o rest
          ELSE rest

\* doc.get(f, '').strip() if doc.get(f) else ''
FieldOrEmpty(doc, f) ==
  IF f \in DOMAIN doc /\ doc[f] # <<>> THEN Strip(doc[f]) ELSE <<>>

\* the first loop: one entry per returned document, keyed by its userid field
RECURSIVE CollectDocs(_, _)
CollectDocs(query_results, user_data) ==
  IF query_results = <<>> THEN user_data
  ELSE LET doc == Head(query_results)
           userid == Strip(DictGet(doc, "userid", <<>>))
       IN CollectDocs(Tail(query_results),
                      DictPut(user_data, userid,
                              [dob |-> FieldOrEmpty(doc, "dob"),
                               email |-> FieldOrEmpty(doc, "email")]))

\* the second loop: requested identifiers without an entry get the default
RECURSIVE FillMissing(_, _)
FillMissing(userids, user_data) ==
  IF userids = <<>> THEN user_data
  ELSE LET userid_str == Strip(Head(userids))
       IN FillMissing(Tail(userids),
                      IF userid_str \notin DOMAIN user_data
                      THEN DictPut(user_data, userid_str, [dob |-> <<>>, email |-> <<>>])
                      ELSE user_data)

\* get_user_data_from_mongo(userids, client) when the query returns
GetUserDataFromMongo(userids, store) ==
  IF userids = <<>> THEN EmptyDict
  ELSE FillMissing(userids, CollectDocs(CollectionFind(store, userids), EmptyDict))

\* ------------------------------------------------------------------------
\* Archive decoder: extract_csv_from_zip
\* ------------------------------------------------------------------------

\* None is the empty sequence, a value v that may be None is <<v>>
None == <<>>
Some(v) == <<v>>
ValueOf(b) == b[1]

DotCsv == <<".", "c", "s", "v">>
DotZip == <<".", "z", "i", "p">>

\* [f for f in zf.namelist() if f.endswith('.csv')]
CsvFilesUnfiltered(entries) == entries
RECURSIVE CsvFiles(_)
CsvFiles(entries) ==
  IF entries = <<>> THEN <<>>
  ELSE IF EndsWith(Head(entries).name, DotCsv)
       THEN <<Head(entries)>> \o CsvFiles(Tail(entries))
       ELSE CsvFiles(Tail(entries))

\* zf.open(csv_name, pwd=...).read() on one entry: the decoder raises
\* RuntimeError('Bad password ...') when the passphrase does not fit, another
\* RuntimeError for an entry it cannot decode, and a non-RuntimeError
\* exception for a damaged entry
ZipOpen(entry, password) ==
  IF entry.pwd # password THEN "bad_password"
  ELSE IF entry.damage = "runtime" THEN "runtime_error"
  ELSE IF entry.damage = "crc" THEN "other_error"
  ELSE "ok"

\* mutant of ExtractCsvFromZip: the RuntimeError handler does not test for
\* the password message
ExtractCsvFromZipNoPasswordTest(zip, password) ==
  IF ~zip.readable
  THEN [csv_buffer |-> None, csv_name |-> None, diag |-> "zip_error"]
  ELSE LET csv_files == CsvFiles(zip.entries)
       IN IF csv_files = <<>>
          THEN [csv_buffer |-> None, csv_name |-> None, diag |-> "no_csv"]
          ELSE LET entry == csv_files[1]
                   opened == ZipOpen(entry, password)
               IN CASE opened = "ok" ->
                         [csv_buffer |-> Some(entry.content), csv_name |-> Some(entry.name),
                          diag |-> "extracted"]
                    [] opened \in {"bad_password", "runtime_error"} ->
                         [csv_buffer |-> None, csv_name |-> None,
                          diag |-> "open_error"]
                    [] OTHER ->
                         [csv_buffer |-> None, csv_name |-> None,
                          diag |-> "zip_error"]

\* extract_csv_from_zip(zip_buffer, password, filename): the pair returned
\* and the diagnostic printed
ExtractCsvFromZip(zip, password) ==
  IF ~zip.readable
  THEN [csv_buffer |-> None, csv_name |-> None, diag |-> "zip_error"]
  ELSE LET csv_files == CsvFiles(zip.entries)
       IN IF csv_files = <<>>
          THEN [csv_buffer |-> None, csv_name |-> None, diag |-> "no_csv"]
          ELSE LET entry == csv_files[1]
                   opened == ZipOpen(entry, password)
               IN CASE opened = "ok" ->
                         [csv_buffer |-> Some(entry.content), csv_name |-> Some(entry.name),
                          diag |-> "extracted"]
                    [] opened = "bad_password" ->
                         [csv_buffer |-> None, csv_name |-> None,
                          diag |-> "incorrect_password"]
                    [] opened = "runtime_error" ->
                         [csv_buffer |-> None, csv_name |-> None,
                          diag |-> "open_error"]
                    [] OTHER ->
                         [csv_buffer |-> None, csv_name |-> None,
                          diag |-> "zip_error"]

\* ------------------------------------------------------------------------
\* Enrichment transform: process_csv_from_memory
\* ------------------------------------------------------------------------

DobOnlyMarker == <<"_", "d", "o", "b", "_", "o", "n", "l", "y", "_">>

\* '_dob_only_' in filename.lower()
OnlyDob(filename) == Contains(Lower(filename), DobOnlyMarker)

\* pd.read_csv on a comma-delimited text with a header row: the data frame's
\* columns are the header, row i maps each column to the i-th line's field
ReadCsv(text) ==
  [columns |-> text.header,
   rows |-> [i \in 1..Len(text.lines) |->
               [c \in Range(text.header) |->
                  text.lines[i][CHOOSE j \in 1..Len(text.header) : text.header[j] = c]]]]

\* df['userid'].astype(str).str.strip()
StrippedUserids(df) == [i \in 1..Len(df.rows) |-> Strip(df.rows[i]["userid"])]

\* Series.unique().tolist(): the distinct values in order of first appearance
UniqueKeepAll(s, seen) == s
RECURSIVE Unique(_, _)
Unique(s, seen) ==
  IF s = <<>> THEN <<>>
  ELSE IF Head(s) \in seen THEN Unique(Tail(s), seen)
       ELSE <<Head(s)>> \o Unique(Tail(s), seen \cup {Head(s)})

\* df[col] = values: an existing column is overwritten in place, a new one is
\* appended after the last column
SetColumn(df, col, values) ==
  [columns |-> IF col \in Range(df.columns) THEN df.columns ELSE Append(df.columns, col),
   rows |-> [i \in 1..Len(df.rows) |->
               [c \in Range(df.columns) \cup {col} |->
                  IF c = col THEN values[i] ELSE df.rows[i][c]]]]

\* [col for col in df.columns if col not in ['dob', 'email']]
OriginalColsUnfiltered(columns) == columns
RECURSIVE OriginalCols(_)
OriginalCols(columns) ==
  IF columns = <<>> THEN <<>>
  ELSE IF Head(columns) \in {"dob", "email"} THEN OriginalCols(Tail(columns))
       ELSE <<Head(columns)>> \o OriginalCols(Tail(columns))

\* df[cols] followed by df.to_csv(index=False): the header is cols, each line
\* holds the row's fields in that order
ToCsv(df, cols) ==
  [header |-> cols,
   lines |-> [i \in 1..Len(df.rows) |-> [j \in 1..Len(cols) |-> df.rows[i][cols[j]]]]]

\* the two mapped columns: user_data.get(x, {}).get(attr, '')
MapAttr(df, user_data, attr) ==
  [i \in 1..Len(df.rows) |->
     LET x == Strip(df.rows[i]["userid"])
     IN IF x \in DOMAIN user_data THEN user_data[x][attr] ELSE <<>>]

\* process_csv_from_memory(content_buffer, filename, groupid, mongo_client):
\* the buffer returned (None when the file is skipped), the number of
\* reference queries issued and the identifiers requested.  query_ok tells
\* whether the reference store answers the query or raises.
ProcessCsvFromMemory(text, filename, store, query_ok) ==
  LET only_dob == OnlyDob(filename)
  IN IF ~text.parsable
     THEN [updated_content |-> None, queries |-> <<>>, diag |-> "process_error"]
     ELSE LET df == ReadCsv(text)
          IN IF "userid" \notin Range(df.columns) \/ Len(df.rows) = 0
             THEN [updated_content |-> None, queries |-> <<>>, diag |-> "invalid_structure"]
             ELSE LET unique_userids == Unique(StrippedUserids(df), {})
                  IN IF ~query_ok
                     THEN [updated_content |-> None, queries |-> <<unique_userids>>,
                           diag |-> "process_error"]
                     ELSE LET user_data == GetUserDataFromMongo(unique_userids, store)
                              df1 == SetColumn(df, "dob", MapAttr(df, user_data, "dob"))
                              df2 == SetColumn(df1, "email",
                                               IF ~only_dob
                                               THEN MapAttr(df1, user_data, "email")
                                               ELSE [i \in 1..Len(df1.rows) |-> <<>>])
                              cols == OriginalCols(df2.columns) \o <<"dob">>
                                      \o (IF ~only_dob THEN <<"email">> ELSE <<>>)
                          IN [updated_content |-> Some(ToCsv(df2, cols)),
                              queries |-> <<unique_userids>>,
                              diag |-> "processed"]

\* ------------------------------------------------------------------------
\* Remote store (SFTP server) as the session sees it
\* ------------------------------------------------------------------------

\* a path string as the server resolves it: its non-empty segments, counted
\* from the root for an absolute path and from the current directory otherwise
RECURSIVE NonEmpty(_)
NonEmpty(parts) ==
  IF parts = <<>> THEN <<>>
  ELSE IF Head(parts) = <<>> THEN NonEmpty(Tail(parts))
       ELSE <<Head(parts)>> \o NonEmpty(Tail(parts))

ResolvePath(wd, path) ==
  IF path # <<>> /\ Head(path) = "/" THEN NonEmpty(SplitSlash(path))
  ELSE wd \o NonEmpty(SplitSlash(path))

ParentDir(d) == SubSeq(d, 1, Len(d) - 1)

\* the directories of the server: the root and those in ds
DirExists(ds, d) == d = <<>> \/ d \in ds

\* sftp.mkdir(path): succeeds when the server permits it, the parent exists
\* and the path does not
MkdirOk(ds, d, permitted) ==
  permitted /\ ~DirExists(ds, d) /\ DirExists(ds, ParentDir(d))

\* the loop over parts in ensure_sftp_dir: chdir into each prefix of the
\* path, creating it when the chdir fails and ignoring a failed creation
RECURSIVE EnsureParts(_, _, _, _, _)
EnsureParts(parts, current_path, ds, wd, permitted) ==
  IF parts = <<>> THEN [dirs |-> ds, cwd |-> wd]
  ELSE LET next_path == current_path \o <<"/">> \o Head(parts)
           d == ResolvePath(wd, next_path)
       IN IF DirExists(ds, d)
          THEN EnsureParts(Tail(parts), next_path, ds, d, permitted)
          ELSE EnsureParts(Tail(parts), next_path,
                           IF MkdirOk(ds, d, permitted) THEN ds \cup {d} ELSE ds,
                           wd, permitted)

\* ensure_sftp_dir(sftp, remote_dir) when its first chdir does not raise
\* anything but IOError: the server's directories and the session's current
\* directory afterwards
EnsureSftpDir(remote_dir, ds, wd, permitted) ==
  LET d == ResolvePath(wd, remote_dir)
  IN IF DirExists(ds, d) THEN [dirs |-> ds, cwd |-> d]
     ELSE IF MkdirOk(ds, d, permitted) THEN [dirs |-> ds \cup {d}, cwd |-> wd]
     ELSE EnsureParts(SplitSlash(StripSlash(remote_dir)), <<>>, ds, wd, permitted)

\* the names sftp.listdir() returns for directory d: its files in the
\* server's order, then its sub-directories
RECURSIVE SetToSeq(_)
SetToSeq(S) ==
  IF S = {} THEN <<>>
  ELSE LET x == CHOOSE y \in S : TRUE IN <<x>> \o SetToSeq(S \ {x})

ListDir(fs, ds, d) ==
  (IF d \in DOMAIN fs THEN fs[d] ELSE <<>>)
  \o SetToSeq({c[Len(c)] : c \in {x \in ds : Len(x) = Len(d) + 1 /\ ParentDir(x) = d}})

\* mutant of MatchingFiles: the suffix is compared in lower case
RECURSIVE MatchingFilesAnyCase(_, _)
MatchingFilesAnyCase(all_files, gid) ==
  IF all_files = <<>> THEN <<>>
  ELSE LET f == Head(all_files)
       IN IF Contains(Lower(f), Lower(gid)) /\ EndsWith(Lower(f), DotZip)
          THEN <<f>> \o MatchingFilesAnyCase(Tail(all_files), gid)
          ELSE MatchingFilesAnyCase(Tail(all_files), gid)

\* [f for f in all_files if groupid.lower() in f.lower() and f.endswith('.zip')]
RECURSIVE MatchingFiles(_, _)
MatchingFiles(all_files, gid) ==
  IF all_files = <<>> THEN <<>>
  ELSE LET f == Head(all_files)
       IN IF Contains(Lower(f), Lower(gid)) /\ EndsWith(f, DotZip)
          THEN <<f>> \o MatchingFiles(Tail(all_files), gid)
          ELSE MatchingFiles(Tail(all_files), gid)

\* list_files_from_sftp(sftp, remote_dir, groupid): the list returned and the
\* session's current directory afterwards; listable is false when chdir or
\* listdir raises
ListFilesFromSftp(remote_dir, gid, fs, ds, wd, listable) ==
  LET d == ResolvePath(wd, remote_dir)
  IN IF ~listable \/ ~DirExists(ds, d) THEN [files |-> <<>>, cwd |-> wd]
     ELSE [files |-> MatchingFiles(ListDir(fs, ds, d), gid), cwd |-> d]

\* sftp.open(filename, 'rb'): the file must exist in the session's current
\* directory
FileExists(fs, wd, filename) == wd \in DOMAIN fs /\ filename \in Range(fs[wd])

\* f"updated_{filename}" and f"{base_name}.csv"
UpdatedPrefix == <<"u", "p", "d", "a", "t", "e", "d", "_">>
CsvFilename(filename) == SplitextBase(filename) \o DotCsv
NewFilename(filename) == UpdatedPrefix \o filename

\* 2 ** attempt
RECURSIVE Pow2(_)
Pow2(n) == IF n = 0 THEN 1 ELSE 2 * Pow2(n - 1)

\* ------------------------------------------------------------------------
\* Configuration and the data the runs are checked on
\* ------------------------------------------------------------------------

\* max_retries of get_sftp_client and of read_file_from_sftp
max_retries == 3

\* the most names the source directory holds
MaxFiles == 2

\* the most transient read failures the store injects in one run
MaxFaults == 3

\* ZIP_PASSWORD and a passphrase that differs from it
ZIP_PASSWORD == "secret"
OtherPassword == "other"

\* SFTP_SOURCE_DIR and the two SFTP_OUTPUT_DIR settings (the same directory,
\* a different one)
SourceDirs == {<<"/", "r", "/", "s", "/">>}
OutputDirs == {<<"/", "r", "/", "s", "/">>, <<"/", "r", "/", "o", "/">>}

\* the directory trees the server may start with
InitialDirs ==
  {{}, {<< <<"r">> >>}, {<< <<"r">> >>, << <<"r">>, <<"s">> >>},
   {<< <<"r">> >>, << <<"r">>, <<"s">> >>, << <<"r">>, <<"o">> >>}}

\* the groupid arguments: upper case, the names carry both cases
GroupIds == {<<"G">>}

\* tables
TableA ==
  [parsable |-> TRUE, header |-> <<"userid", "name">>,
   lines |-> << << <<"1">>, <<"A", "l">> >>, << <<"2">>, <<"B", "o">> >> >>]
TableB ==
  [parsable |-> TRUE, header |-> <<"name", "userid">>,
   lines |-> << << <<"B", "o">>, <<" ", "1">> >> >>]
TableNoUserid ==
  [parsable |-> TRUE, header |-> <<"name">>, lines |-> << << <<"A", "l">> >> >>]

\* the reference store of Scenario A
StoreA ==
  << [userid |-> <<"1">>, dob |-> <<"1", "9", "9", "0">>, email |-> <<"a", "@", "x">>] >>

CsvEntry(n, pwd, text) ==
  [name |-> <<n>> \o DotCsv, pwd |-> pwd, damage |-> "none", content |-> text]
TxtEntry(n) ==
  [name |-> <<n, ".", "t", "x", "t">>, pwd |-> ZIP_PASSWORD, damage |-> "none",
   content |-> [parsable |-> FALSE, header |-> <<>>, lines |-> <<>>]]

\* the names the source directory may hold
NameG1 == <<"g", "1">> \o DotZip
NameG2 == <<"G", "2">> \o DotZip
NameBadPwd == <<"g", "4">> \o DotZip
NameNoCsv == <<"g", "5">> \o DotZip
NameNoUserid == <<"g", "6">> \o DotZip
NameOtherGroup == <<"x", "7">> \o DotZip
NameUpperZip == <<"g", "8", ".", "Z", "I", "P">>

NamePool ==
  {NameG1, NameG2, NameBadPwd, NameNoCsv, NameNoUserid, NameOtherGroup, NameUpperZip}

\* the archive stored under each name
ArchiveOf(name) ==
  CASE name = NameG1 ->
         [readable |-> TRUE, entries |-> <<CsvEntry("a", ZIP_PASSWORD, TableA)>>]
    [] name = NameG2 ->
         [readable |-> TRUE,
          entries |-> <<TxtEntry("r"), CsvEntry("a", ZIP_PASSWORD, TableB),
                        CsvEntry("b", ZIP_PASSWORD, TableA)>>]
    [] name = NameBadPwd ->
         [readable |-> TRUE,
          entries |-> <<CsvEntry("a", OtherPassword, TableA),
                        CsvEntry("b", ZIP_PASSWORD, TableA)>>]
    [] name = NameNoCsv ->
         [readable |-> TRUE, entries |-> <<TxtEntry("r")>>]
    [] name = NameNoUserid ->
         [readable |-> TRUE, entries |-> <<CsvEntry("a", ZIP_PASSWORD, TableNoUserid)>>]
    [] OTHER ->
         [readable |-> FALSE, entries |-> <<>>]

\* the most identifiers requested, documents stored and rows of a table in
\* the runs of the single functions
MaxIds == 2
MaxDocs == 2
MaxRows == 2

\* identifiers as they are requested and as table cells hold them: plain,
\* with leading whitespace, and a blank cell (read_csv keeps a cell of spaces
\* as a string, strip() makes it empty)
IdPool == {<<"1">>, <<"2">>, <<" ", "1">>, <<" ">>}

\* documents of the users collection: with and without whitespace, with an
\* empty and with an absent attribute, without a userid
DocPool ==
  {[userid |-> <<"1">>, dob |-> <<"1", "9", "9", "0">>, email |-> <<"a", "@", "x">>],
   [userid |-> <<"1">>, dob |-> <<" ", "d", " ">>],
   [userid |-> <<"2">>, dob |-> <<>>, email |-> <<"b">>],
   [userid |-> <<" ", "1">>, dob |-> <<"s">>, email |-> <<"s">>],
   [dob |-> <<"x">>, email |-> <<"y">>]}

\* the sequences over S of length at most n
RECURSIVE SeqsUpTo(_, _)
SeqsUpTo(S, n) ==
  IF n = 0 THEN {<<>>}
  ELSE LET shorter == SeqsUpTo(S, n - 1)
       IN shorter \cup {Append(p[1], p[2]) : p \in {q \in shorter \X S : Len(q[1]) = n - 1}}

\* headers of the tables: userid first or last, absent, with a dob or an
\* email column already there
HeaderPool ==
  {<<"userid", "name">>, <<"name", "userid">>, <<"name">>,
   <<"dob", "userid">>, <<"userid", "email", "name">>}

NameCell == <<"n">>
OldCell == <<"o">>

\* the line of a table with header h whose userid cell is u
LineFor(h, u) ==
  [j \in 1..Len(h) |->
     IF h[j] = "userid" THEN u ELSE IF h[j] = "name" THEN NameCell ELSE OldCell]

TablePool ==
  {[parsable |-> FALSE, header |-> <<>>, lines |-> <<>>]} \cup
  {[parsable |-> TRUE, header |-> h, lines |-> [i \in 1..Len(us) |-> LineFor(h, us[i])]] :
     h \in HeaderPool, us \in SeqsUpTo(IdPool, MaxRows)}

\* file names handed to process_csv_from_memory: without the marker, with it,
\* and with it in another case
NameDobOnly == <<"G">> \o DobOnlyMarker \o DotZip
NameDobOnlyUpper == <<"G", "_", "D", "o", "b", "_", "o", "n", "l", "y", "_">> \o DotZip
FilenamePool == {NameG1, NameDobOnly, NameDobOnlyUpper}

\* the sequences of distinct elements of S of length at most n
RECURSIVE DistinctSeqs(_, _)
DistinctSeqs(S, n) ==
  IF n = 0 THEN {<<>>}
  ELSE LET shorter == DistinctSeqs(S, n - 1)
       IN shorter \cup
          {Append(p[1], p[2]) :
             p \in {q \in shorter \X S : Len(q[1]) = n - 1 /\ q[2] \notin Range(q[1])}}

\* ------------------------------------------------------------------------
\* State of one run of main()
\* ------------------------------------------------------------------------

VARIABLES
  pc,              \* position of main(): start, sftp_connect, ensure_source,
                   \* ensure_output, list, read, decode, transform, upload,
                   \* finally, done, raised, exited
  groupid,         \* the groupid argument
  source_dir,      \* SFTP_SOURCE_DIR
  output_dir,      \* SFTP_OUTPUT_DIR
  mkdir_permitted, \* whether the server lets the session create directories
  write_reject,    \* the archives whose upload the store refuses
  faults_left,     \* transient read failures the store may still inject
  mongo_store,     \* the documents of the users collection
  dirs,            \* the server's directories
  files,           \* directory -> the names of its files in listing order
  cwd,             \* the session's current directory
  conn,            \* resource -> how often it was opened and closed
  acquired,        \* the resources in the order main() obtained them
  released,        \* the resources in the order main() closed them
  attempt,         \* get_sftp_client: failed attempts so far
  sleeps,          \* get_sftp_client: the delays slept, in order
  store_ops,       \* the kinds of remote operations issued so far: ensure,
                   \* list, read, write on the file store, query on the
                   \* reference store
  matching_files,  \* the list list_files_from_sftp returned
  idx,             \* position of the for loop in matching_files (1-based)
  uploaded_count,
  read_attempt,    \* read_file_from_sftp: failed attempts for the current file
  zip_buffer, csv_buffer, updated_content,
  exc,             \* an exception is propagating out of the try block
  hist,            \* per listed archive: what the run did with it
  fn,              \* the single function a function-level run applies
  fn_userids,      \* get_user_data_from_mongo: the userids argument
  fn_table,        \* process_csv_from_memory: the text in content_buffer
  fn_filename,     \* process_csv_from_memory: the filename argument
  fn_client,       \* get_user_data_from_mongo: the client argument, supplied
                   \* by the caller or None
  fn_remote_dir,   \* ensure_sftp_dir: the remote_dir argument
  fn_ret           \* the value the function returned, None before the call

fnVars == <<fn, fn_userids, fn_table, fn_filename, fn_client, fn_remote_dir, fn_ret>>

envVars == <<groupid, source_dir, output_dir, mkdir_permitted, write_reject, mongo_store>>

srvVars == <<dirs, files, cwd>>
connVars == <<conn, acquired, released>>
retryVars == <<attempt, sleeps>>
loopVars == <<matching_files, idx, uploaded_count, read_attempt>>
bufVars == <<zip_buffer, csv_buffer, updated_content>>

vars == <<pc, envVars, faults_left, srvVars, connVars, retryVars, store_ops, loopVars, bufVars, exc, hist, fnVars>>

Resources == {"mongo", "transport", "sftp"}

FilesIn(fs, d) == IF d \in DOMAIN fs THEN fs[d] ELSE <<>>

\* writing name into directory d: a new name is appended to the listing
AddFile(fs, d, name) ==
  IF name \in Range(FilesIn(fs, d)) THEN fs
  ELSE DictPut(fs, d, Append(FilesIn(fs, d), name))

NoHist ==
  [started |-> 0, reads |-> 0, sleeps |-> <<>>, read |-> "",
   decode |-> "", transform |-> "", writes |-> 0, write |-> "", written |-> None,
   stages |-> <<>>, decoded |-> None]

\* `if x is None: continue`: the file is left when a stage returned None
StageFailedNever(x) == FALSE
StageFailed(x) == x = None

\* `if upload_to_sftp(...): uploaded_count += 1`
CountAfterAlways(uploaded, count) == count + 1
CountAfter(uploaded, count) == IF uploaded THEN count + 1 ELSE count

Init ==
  /\ pc = "start"
  /\ groupid \in GroupIds
  /\ source_dir \in SourceDirs
  /\ output_dir \in OutputDirs
  /\ dirs \in InitialDirs
  /\ mkdir_permitted \in
       IF {ResolvePath(<<>>, source_dir), ResolvePath(<<>>, output_dir)} \subseteq dirs
       THEN {TRUE} ELSE BOOLEAN
  /\ mongo_store = StoreA
  /\ faults_left = MaxFaults
  /\ \E listing \in DistinctSeqs(NamePool, MaxFiles) :
       /\ listing # <<>> => ResolvePath(<<>>, source_dir) \in dirs
       /\ files = IF listing = <<>> THEN EmptyDict
                  ELSE DictPut(EmptyDict, ResolvePath(<<>>, source_dir), listing)
       /\ write_reject \in SUBSET Range(MatchingFiles(listing, groupid))
  /\ cwd = <<>>
  /\ conn = [r \in Resources |-> [opened |-> 0, closed |-> 0]]
  /\ acquired = <<>>
  /\ released = <<>>
  /\ attempt = 0
  /\ sleeps = <<>>
  /\ store_ops = {}
  /\ matching_files = <<>>
  /\ idx = 0
  /\ uploaded_count = 0
  /\ read_attempt = 0
  /\ zip_buffer = None
  /\ csv_buffer = None
  /\ updated_content = None
  /\ exc = FALSE
  /\ hist = <<>>
  /\ fn = "main"
  /\ fn_userids = <<>>
  /\ fn_table = None
  /\ fn_filename = <<>>
  /\ fn_client = "supplied"
  /\ fn_remote_dir = <<>>
  /\ fn_ret = None

Open(c, r) == [c EXCEPT ![r].opened = @ + 1]
Close(c, r) == [c EXCEPT ![r].closed = @ + 1]

\* get_mongo_client(): the connection is returned, or the process exits
GetMongoClient ==
  /\ pc = "start"
  /\ \E ok \in BOOLEAN :
       IF ok
       THEN /\ conn' = Open(conn, "mongo")
            /\ acquired' = Append(acquired, "mongo")
            /\ pc' = "sftp_connect"
       ELSE /\ pc' = "exited"
            /\ UNCHANGED <<conn, acquired>>
  /\ UNCHANGED <<fnVars, envVars, faults_left, srvVars, released, retryVars, store_ops, loopVars, bufVars, exc, hist>>

\* mutant of RetriesLeft: the loop gives up one attempt early
RetriesLeftShort(att) == att < max_retries - 2

\* `if attempt < max_retries - 1`: another attempt follows this failed one
RetriesLeft(att) == att < max_retries - 1

\* mutant of SleepAfter: a fixed delay instead of the doubling one
SleepAfterFixed(att) == IF att < max_retries - 1 THEN <<1>> ELSE <<>>

\* the delay slept after failed attempt att: time.sleep(2 ** attempt) when
\* another attempt follows, none after the last
SleepAfter(att) == IF RetriesLeft(att) THEN <<Pow2(att)>> ELSE <<>>

\* one iteration of the for loop of get_sftp_client(): the attempt connects
\* and the function returns, or it fails and the loop sleeps 2 ** attempt
\* before the next attempt, or, on the last attempt, exits the process
\* (sys.exit(1) inside the call: main() is before its try block, so its finally
\* block does not run).  With max_retries = 3 the loop never falls through
\* to `return None, None`, so main()'s `if sftp is None` branch is not taken.
GetSftpClientAttempt ==
  /\ pc = "sftp_connect"
  /\ attempt < max_retries
  /\ \E ok \in BOOLEAN :
       IF ok
       THEN /\ conn' = Open(Open(conn, "transport"), "sftp")
            /\ acquired' = acquired \o <<"transport", "sftp">>
            /\ pc' = "ensure_source"
            /\ attempt' = 0
            /\ sleeps' = <<>>
       ELSE /\ attempt' = attempt + 1
            /\ sleeps' = sleeps \o SleepAfter(attempt)
            /\ pc' = IF RetriesLeft(attempt) THEN "sftp_connect" ELSE "exited"
            /\ UNCHANGED <<conn, acquired>>
  /\ UNCHANGED <<fnVars, envVars, faults_left, srvVars, released, store_ops, loopVars, bufVars, exc, hist>>

\* ensure_sftp_dir(sftp, SFTP_SOURCE_DIR) and ensure_sftp_dir(sftp,
\* SFTP_OUTPUT_DIR); a chdir that raises something else than IOError leaves
\* the try block through finally
EnsureDir(at, remote_dir, next) ==
  /\ pc = at
  /\ store_ops' = store_ops \cup {"ensure"}
  /\ \E session_ok \in BOOLEAN :
       IF session_ok
       THEN LET r == EnsureSftpDir(remote_dir, dirs, cwd, mkdir_permitted)
            IN /\ dirs' = r.dirs
               /\ cwd' = r.cwd
               /\ pc' = next
               /\ UNCHANGED exc
       ELSE /\ exc' = TRUE
            /\ pc' = "finally"
            /\ UNCHANGED <<dirs, cwd>>
  /\ UNCHANGED <<fnVars, envVars, faults_left, files, connVars, retryVars, loopVars, bufVars, hist>>

EnsureSourceDir == EnsureDir("ensure_source", source_dir, "ensure_output")
EnsureOutputDir == EnsureDir("ensure_output", output_dir, "list")

\* matching_files = list_files_from_sftp(...); an empty list returns from
\* main(), otherwise the loop starts with uploaded_count = 0
ListFiles ==
  /\ pc = "list"
  /\ store_ops' = store_ops \cup {"list"}
  /\ \E listable \in BOOLEAN :
       LET r == ListFilesFromSftp(source_dir, groupid, files, dirs, cwd, listable)
       IN /\ matching_files' = r.files
          /\ cwd' = r.cwd
          /\ hist' = [i \in 1..Len(r.files) |-> NoHist]
          /\ IF r.files = <<>>
             THEN pc' = "finally" /\ idx' = idx
             ELSE pc' = "read" /\ idx' = 1
  /\ uploaded_count' = 0
  /\ UNCHANGED <<fnVars, envVars, faults_left, dirs, files, connVars, retryVars, read_attempt, bufVars, exc>>

\* mutant of NextFile: the loop does not advance before the last pass
NextFileRepeat ==
  IF idx < Len(matching_files)
  THEN idx' = idx /\ pc' = "read"
  ELSE idx' = idx /\ pc' = "finally"

\* the for loop of main() moves to the next name of matching_files, or past
\* the loop to the summary and the finally block
NextFile ==
  IF idx < Len(matching_files)
  THEN idx' = idx + 1 /\ pc' = "read"
  ELSE idx' = idx /\ pc' = "finally"

\* one iteration of the for loop of read_file_from_sftp(sftp, filename): the
\* open and read succeed and the buffer is returned, or they fail and the loop
\* sleeps 2 ** attempt before the next attempt, or, on the last attempt,
\* returns None and main() continues with the next file.  fault is a
\* transient failure of the store.
ReadFileAttempt ==
  /\ pc = "read"
  /\ read_attempt < max_retries
  /\ store_ops' = store_ops \cup {"read"}
  /\ LET filename == matching_files[idx]
     IN \E fault \in {FALSE} \cup {faults_left > 0} :
          LET h == [hist[idx] EXCEPT !.started = IF read_attempt = 0 THEN @ + 1 ELSE @,
                                     !.stages = IF read_attempt = 0
                                                THEN Append(@, "read") ELSE @,
                                     !.reads = @ + 1]
          IN /\ faults_left' = IF fault THEN faults_left - 1 ELSE faults_left
             /\ IF ~fault /\ FileExists(files, cwd, filename)
                THEN /\ zip_buffer' = Some(ArchiveOf(filename))
                     /\ hist' = [hist EXCEPT ![idx] = [h EXCEPT !.read = "ok"]]
                     /\ read_attempt' = 0
                     /\ pc' = "decode"
                     /\ UNCHANGED idx
                ELSE IF RetriesLeft(read_attempt)
                THEN /\ hist' = [hist EXCEPT ![idx] =
                                   [h EXCEPT !.sleeps = @ \o SleepAfter(read_attempt)]]
                     /\ read_attempt' = read_attempt + 1
                     /\ UNCHANGED <<zip_buffer, pc, idx>>
                ELSE /\ hist' = [hist EXCEPT ![idx] = [h EXCEPT !.read = "None"]]
                     /\ read_attempt' = 0
                     /\ NextFile
                     /\ UNCHANGED zip_buffer
  /\ UNCHANGED <<fnVars, envVars, srvVars, connVars, retryVars, matching_files, uploaded_count,
                 csv_buffer, updated_content, exc>>

\* csv_buffer, csv_name = extract_csv_from_zip(zip_buffer, ZIP_PASSWORD,
\* filename); None continues with the next file
ExtractCsv ==
  /\ pc = "decode"
  /\ LET r == ExtractCsvFromZip(ValueOf(zip_buffer), ZIP_PASSWORD)
     IN /\ hist' = [hist EXCEPT ![idx].decode = r.diag,
                                ![idx].stages = Append(@, "decode"),
                                ![idx].decoded =
                                  IF r.csv_buffer = None THEN None
                                  ELSE Some([csv_buffer |-> ValueOf(r.csv_buffer),
                                             csv_name |-> ValueOf(r.csv_name)])]
        /\ IF StageFailed(r.csv_buffer)
           THEN /\ NextFile
                /\ zip_buffer' = None
                /\ UNCHANGED csv_buffer
           ELSE /\ csv_buffer' = r.csv_buffer
                /\ pc' = "transform"
                /\ UNCHANGED <<idx, zip_buffer>>
  /\ UNCHANGED <<fnVars, envVars, faults_left, srvVars, connVars, retryVars, store_ops, matching_files,
                 uploaded_count, read_attempt, updated_content, exc>>

\* updated_content = process_csv_from_memory(csv_buffer, filename, groupid,
\* mongo_client); None continues with the next file
ProcessCsv ==
  /\ pc = "transform"
  /\ \E query_ok \in BOOLEAN :
       LET r == ProcessCsvFromMemory(ValueOf(csv_buffer), matching_files[idx], mongo_store, query_ok)
       IN /\ hist' = [hist EXCEPT ![idx].transform = r.diag,
                                  ![idx].stages = Append(@, "transform")]
          /\ store_ops' = IF r.queries = <<>> THEN store_ops ELSE store_ops \cup {"query"}
          /\ IF StageFailed(r.updated_content)
             THEN /\ NextFile
                  /\ zip_buffer' = None
                  /\ csv_buffer' = None
                  /\ UNCHANGED updated_content
             ELSE /\ updated_content' = r.updated_content
                  /\ pc' = "upload"
                  /\ UNCHANGED <<idx, zip_buffer, csv_buffer>>
  /\ UNCHANGED <<fnVars, envVars, faults_left, srvVars, connVars, retryVars, matching_files,
                 uploaded_count, read_attempt, exc>>

\* upload_to_sftp(sftp, csv_filename, updated_content, SFTP_OUTPUT_DIR) and
\* the count: the session changes to the output directory and writes
\* updated_<base>.csv there; True increments uploaded_count.  A refused upload
\* fails at the chdir or at the open/write.
Upload ==
  /\ pc = "upload"
  /\ store_ops' = store_ops \cup {"write"}
  /\ LET filename == matching_files[idx]
         new_filename == NewFilename(CsvFilename(filename))
         d == ResolvePath(cwd, output_dir)
         refused == filename \in write_reject
     IN \E fail_at \in {"chdir", "open"} :
          LET chdir_ok == DirExists(dirs, d) /\ ~(refused /\ fail_at = "chdir")
              ok == chdir_ok /\ ~refused
          IN /\ cwd' = IF chdir_ok THEN d ELSE cwd
             /\ files' = IF ok THEN AddFile(files, d, new_filename) ELSE files
             /\ uploaded_count' = CountAfter(ok, uploaded_count)
             /\ hist' = [hist EXCEPT ![idx].writes = @ + 1,
                                     ![idx].stages = @ \o <<"derive", "write">>,
                                     ![idx].write = IF ok THEN "ok" ELSE "failed",
                                     ![idx].written = IF ok THEN updated_content ELSE None]
  /\ NextFile
  /\ zip_buffer' = None
  /\ csv_buffer' = None
  /\ updated_content' = None
  /\ UNCHANGED <<fnVars, envVars, faults_left, dirs, connVars, retryVars, matching_files, read_attempt, exc>>

\* where main() is after its finally block: the exception propagates, or
\* main() has returned
AfterFinallyRestart(e) == "sftp_connect"
AfterFinally(e) == IF e THEN "raised" ELSE "done"

\* the finally block of main(): mongo_client.close(), sftp.close(),
\* transport.close(); then main() returns or the exception leaves it
Finally ==
  /\ pc = "finally"
  /\ conn' = Close(Close(Close(conn, "mongo"), "sftp"), "transport")
  /\ released' = released \o <<"mongo", "sftp", "transport">>
  /\ pc' = AfterFinally(exc)
  /\ UNCHANGED <<fnVars, envVars, faults_left, srvVars, acquired, retryVars, store_ops, loopVars, bufVars, exc, hist>>

Next ==
  \/ GetMongoClient
  \/ GetSftpClientAttempt
  \/ EnsureSourceDir
  \/ EnsureOutputDir
  \/ ListFiles
  \/ ReadFileAttempt
  \/ ExtractCsv
  \/ ProcessCsv
  \/ Upload
  \/ Finally

Spec == Init /\ [][Next]_vars

\* main() is one sequential thread: when every remote call returns, the step
\* it is at is taken
\* and a run ends whatever the archives hold: the runs checked for it list
\* an archive that passes all stages, one that fails to decode and a name of
\* another group
LiveNames == {NameG1, NameBadPwd, NameOtherGroup}
LiveInit == Init /\ \A d \in DOMAIN files : Range(files[d]) \subseteq LiveNames
FairSpec == LiveInit /\ [][Next]_vars /\ WF_vars(Next)

\* ------------------------------------------------------------------------
\* Runs of the single functions get_user_data_from_mongo,
\* process_csv_from_memory and ensure_sftp_dir on inputs drawn from the pools
\* ------------------------------------------------------------------------

\* the variables of main() that no single function touches
MainIdle ==
  /\ pc = "idle"
  /\ groupid = <<"G">>
  /\ source_dir = <<>>
  /\ output_dir = <<>>
  /\ write_reject = {}
  /\ faults_left = 0
  /\ files = EmptyDict
  /\ acquired = <<>>
  /\ released = <<>>
  /\ attempt = 0
  /\ sleeps = <<>>
  /\ store_ops = {}
  /\ matching_files = <<>>
  /\ idx = 0
  /\ uploaded_count = 0
  /\ read_attempt = 0
  /\ zip_buffer = None
  /\ csv_buffer = None
  /\ updated_content = None
  /\ exc = FALSE
  /\ hist = <<>>

\* the connections before a function-level call: none, or the reference-store
\* connection the caller opened and hands over
NoConn == [r \in Resources |-> [opened |-> 0, closed |-> 0]]
CallerConn == Open(NoConn, "mongo")

\* the server without directories, the session at the root
NoServer == dirs = {} /\ cwd = <<>> /\ mkdir_permitted = TRUE

\* the remote_dir arguments of ensure_sftp_dir: absolute with and without a
\* trailing slash, relative with one and with two segments
RemoteDirPool ==
  SourceDirs \cup OutputDirs \cup
  {<<"/", "r", "/", "o">>, <<"/", "r">>, <<"s">>, <<"s", "/", "o">>}

\* the directory trees ensure_sftp_dir may meet
EnsureDirs == InitialDirs \cup {{<< <<"s">> >>}, {<< <<"r">> >>, << <<"r">>, <<"s">> >>, << <<"s">> >>}}

FnInit ==
  /\ MainIdle
  /\ fn_ret = None
  /\ \/ /\ fn = "get_user_data_from_mongo"
        /\ mongo_store \in SeqsUpTo(DocPool, MaxDocs)
        /\ fn_userids \in SeqsUpTo(IdPool, MaxIds)
        /\ fn_client \in {"supplied", "None"}
        /\ conn = IF fn_client = "supplied" THEN CallerConn ELSE NoConn
        /\ fn_table = None
        /\ fn_filename = <<>>
        /\ fn_remote_dir = <<>>
        /\ NoServer
     \/ /\ fn = "process_csv_from_memory"
        /\ mongo_store \in SeqsUpTo(DocPool, MaxDocs)
        /\ fn_userids = <<>>
        /\ fn_client = "supplied"
        /\ conn = CallerConn
        /\ fn_table \in {Some(t) : t \in TablePool}
        /\ fn_filename \in FilenamePool
        /\ fn_remote_dir = <<>>
        /\ NoServer
     \/ /\ fn = "ensure_sftp_dir"
        /\ mongo_store = <<>>
        /\ fn_userids = <<>>
        /\ fn_client = "supplied"
        /\ conn = NoConn
        /\ fn_table = None
        /\ fn_filename = <<>>
        /\ fn_remote_dir \in RemoteDirPool
        /\ dirs \in EnsureDirs
        /\ cwd \in {<<>>} \cup dirs
        /\ mkdir_permitted \in BOOLEAN

\* get_user_data_from_mongo(userids, client) with its connection handling:
\* how the call ends, the mapping it returns, the connections it opens and
\* closes and the queries it issues.  connect_ok and query_ok tell whether
\* get_mongo_client() connects and whether the query is answered or raises.
GetUserDataCall(userids, store, client, connect_ok, query_ok) ==
  IF userids = <<>>
  THEN [outcome |-> "returned_user_data", user_data |-> Some(EmptyDict),
        opened |-> 0, closed |-> 0, queries |-> 0]
  ELSE IF client = "None" /\ ~connect_ok
  THEN [outcome |-> "exited_user_data", user_data |-> None,
        opened |-> 0, closed |-> 0, queries |-> 0]
  ELSE LET close_client == client = "None"
           opened == IF close_client THEN 1 ELSE 0
       IN IF ~query_ok
          THEN [outcome |-> "raised_user_data", user_data |-> None,
                opened |-> opened, closed |-> 0, queries |-> 1]
          ELSE [outcome |-> "returned_user_data",
                user_data |-> Some(GetUserDataFromMongo(userids, store)),
                opened |-> opened, closed |-> IF close_client THEN 1 ELSE 0,
                queries |-> 1]

\* user_data = get_user_data_from_mongo(userids, client)
CallGetUserData ==
  /\ fn = "get_user_data_from_mongo"
  /\ \E connect_ok, query_ok \in BOOLEAN :
       LET r == GetUserDataCall(fn_userids, mongo_store, fn_client, connect_ok, query_ok)
       IN /\ fn' = r.outcome
          /\ fn_ret' = r.user_data
          /\ conn' = [conn EXCEPT !["mongo"].opened = @ + r.opened,
                                  !["mongo"].closed = @ + r.closed]
          /\ store_ops' = IF r.queries > 0 THEN store_ops \cup {"query"} ELSE store_ops
  /\ UNCHANGED <<pc, envVars, faults_left, srvVars, acquired, released, retryVars,
                 loopVars, bufVars, exc, hist, fn_userids, fn_table, fn_filename,
                 fn_client, fn_remote_dir>>

\* updated_content = process_csv_from_memory(content_buffer, filename,
\* groupid, mongo_client)
CallProcessCsv ==
  /\ fn = "process_csv_from_memory"
  /\ fn_ret = None
  /\ \E query_ok \in BOOLEAN :
       fn_ret' = Some(ProcessCsvFromMemory(ValueOf(fn_table), fn_filename, mongo_store, query_ok))
  /\ fn' = "returned_content"
  /\ UNCHANGED <<pc, envVars, faults_left, srvVars, connVars, retryVars, store_ops,
                 loopVars, bufVars, exc, hist, fn_userids, fn_table, fn_filename,
                 fn_client, fn_remote_dir>>

\* ensure_sftp_dir(sftp, remote_dir), and the same call once more: the value
\* kept is the session's directory before the first call and the server's
\* directories after it
CallEnsureSftpDir ==
  /\ fn \in {"ensure_sftp_dir", "ensured_once"}
  /\ LET r == EnsureSftpDir(fn_remote_dir, dirs, cwd, mkdir_permitted)
     IN /\ dirs' = r.dirs
        /\ cwd' = r.cwd
        /\ IF fn = "ensure_sftp_dir"
           THEN /\ fn' = "ensured_once"
                /\ fn_ret' = Some([cwd_before |-> cwd, dirs_before |-> dirs,
                                   dirs_after |-> r.dirs])
           ELSE /\ fn' = "ensured_twice"
                /\ UNCHANGED fn_ret
  /\ UNCHANGED <<pc, envVars, faults_left, files, connVars, retryVars, store_ops,
                 loopVars, bufVars, exc, hist, fn_userids, fn_table, fn_filename,
                 fn_client, fn_remote_dir>>

FnNext == CallGetUserData \/ CallProcessCsv \/ CallEnsureSftpDir

FnSpec == FnInit /\ [][FnNext]_vars

\* ------------------------------------------------------------------------
\* Properties
\* ------------------------------------------------------------------------

Reverse(q) == [i \in 1..Len(q) |-> q[Len(q) + 1 - i]]

SourcePath == ResolvePath(<<>>, source_dir)
OutputPath == ResolvePath(<<>>, output_dir)

\* the run ended: main() returned, an exception left it, or the process exited
RunEnded == pc \in {"done", "raised", "exited"}

\* the archive under this name decodes and transforms when the stores answer
ArchiveGood(name) ==
  LET e == ExtractCsvFromZip(ArchiveOf(name), ZIP_PASSWORD)
  IN /\ e.csv_buffer # None
     /\ ProcessCsvFromMemory(ValueOf(e.csv_buffer), name, mongo_store, TRUE).updated_content # None

\* the stores of the run serve every read, decode and transform: no transient
\* read failure was injected, no reference query failed, every listed archive
\* is sound, and the output directory is there to be written to
StoresServeAll ==
  /\ faults_left = MaxFaults
  /\ \A i \in DOMAIN hist : hist[i].transform # "process_error"
  /\ \A i \in DOMAIN matching_files : ArchiveGood(matching_files[i])
  /\ DirExists(dirs, OutputPath)

\* C1: partial-failure isolation.  When main() has returned from a run over
\* N >= 1 matched archives in which the stores serve every read, decode and
\* transform and refuse the upload of exactly one archive, uploaded_count is
\* N - 1, whether the output directory is the source directory or not.
C1_PartialFailureIsolation ==
  (/\ pc = "done"
   /\ Len(matching_files) >= 1
   /\ StoresServeAll
   /\ Cardinality(write_reject) = 1)
  => uploaded_count = Len(matching_files) - 1

\* the documents of the store whose userid is u
DocsOf(store, u) ==
  {store[k] : k \in {j \in 1..Len(store) : "userid" \in DOMAIN store[j] /\ store[j]["userid"] = u}}

\* the value the claim expects in an attribute column for identifier u: an
\* attribute of a stored record with that userid, the empty string without one
ExpectedAttr(store, u, attr, value) ==
  IF DocsOf(store, u) = {} THEN value = <<>>
  ELSE \E d \in DocsOf(store, u) : value = FieldOrEmpty(d, attr)

ColumnIndex(header, c) == CHOOSE j \in 1..Len(header) : header[j] = c

\* C2: enrichment result.  Every output row of process_csv_from_memory
\* carries in dob (and in email, when the column is written) the attribute of
\* the stored record whose userid equals the trimmed userid of the same input
\* row, and the empty string when the store holds no such record.
C2_EnrichmentResult ==
  (/\ fn = "returned_content"
   /\ ValueOf(fn_ret).updated_content # None
   /\ ~OnlyDob(fn_filename))
  => LET out == ValueOf(ValueOf(fn_ret).updated_content)
         inp == ValueOf(fn_table)
     IN /\ Len(out.lines) = Len(inp.lines)
        /\ \A i \in 1..Len(out.lines) :
             LET u == Strip(inp.lines[i][ColumnIndex(inp.header, "userid")])
             IN /\ ExpectedAttr(mongo_store, u, "dob",
                                out.lines[i][ColumnIndex(out.header, "dob")])
                /\ ExpectedAttr(mongo_store, u, "email",
                                out.lines[i][ColumnIndex(out.header, "email")])

\* C3: release on every exit path.  Whenever a run has ended, every
\* connection opened during the run has been closed exactly once.
C3_ReleasedOnEveryExit ==
  RunEnded => \A r \in Resources : conn[r].opened <= 1 /\ conn[r].closed = conn[r].opened

\* C4: release order.  On every completed run the resources were released in
\* the reverse of the order in which they were acquired, so the SFTP client
\* and the transport are closed before the reference-store connection.
C4_ReverseReleaseOrder ==
  pc \in {"done", "raised"} => released = Reverse(acquired)

\* the requested identifiers the query matches: those a stored document
\* returned by the `$in` filter carries, compared after trimming
Matched(store, userids) ==
  {Strip(store[j]["userid"]) :
     j \in {k \in 1..Len(store) :
              "userid" \in DOMAIN store[k] /\ store[k]["userid"] \in Range(userids)}}

\* C10: reference record invariant.  For a non-empty request the mapping
\* get_user_data_from_mongo returns has exactly the trimmed requested
\* identifiers as keys, and an identifier without a match in the store maps
\* to the record with empty dob and email.
C10_OneRecordPerIdentifier ==
  (fn = "returned_user_data" /\ fn_userids # <<>>)
  => LET user_data == ValueOf(fn_ret)
     IN /\ DOMAIN user_data = {Strip(u) : u \in Range(fn_userids)}
        /\ \A u \in Range(fn_userids) :
             Strip(u) \notin Matched(mongo_store, fn_userids)
             => /\ Strip(u) \in DOMAIN user_data
                /\ user_data[Strip(u)] = [dob |-> <<>>, email |-> <<>>]

\* the delays of an exponential backoff after n failed attempts: 1, 2, 4, ...
Backoff(n) == [k \in 1..n |-> 2 ^ (k - 1)]

\* C5: connect retry policy.  get_sftp_client makes at most max_retries
\* attempts; after the k-th failed attempt that is not the last it has slept
\* 1, 2, ..., 2^k seconds and nothing after the last; once an attempt has
\* succeeded no further attempt is made; when all attempts failed the run is
\* aborted and no directory was ensured, listed, read or written.
C5_ConnectRetryPolicy ==
  /\ attempt <= 3
  /\ conn["sftp"].opened <= 1
  /\ pc = "sftp_connect" => attempt < 3 /\ sleeps = Backoff(attempt) /\ conn["sftp"].opened = 0
  /\ conn["sftp"].opened = 1 => pc # "sftp_connect" /\ conn["transport"].opened = 1
  /\ (pc = "exited" /\ conn["mongo"].opened = 1)
     => /\ attempt = 3
        /\ sleeps = <<1, 2>>
        /\ conn["sftp"].opened = 0
        /\ store_ops = {}
  /\ store_ops # {} => conn["sftp"].opened = 1

\* the connect exhausted its retries and the run was aborted
C5_Witness == pc = "exited" /\ attempt = 3 /\ sleeps = <<1, 2>> /\ conn["mongo"].opened = 1

\* the finished files of the run: those before the loop position, and the
\* one at it once the loop is over
Finished(i) == i < idx \/ (i = idx /\ pc \in {"finally", "done", "raised"})

UploadedFiles == {i \in DOMAIN hist : hist[i].write = "ok"}

\* C6: read retry and skip.  A file is read at most max_retries (3) times
\* with delays 1, 2 between the attempts; the read returns None only after
\* three failed attempts and the blob at the first success; a file whose read
\* returned None is not decoded, transformed or written, does not count as
\* uploaded, and the loop continues with the next archive.
C6_ReadRetryAndSkip ==
  /\ \A i \in DOMAIN hist :
       /\ hist[i].reads <= 3
       /\ hist[i].read = "" => /\ hist[i].reads < 3
                               /\ hist[i].sleeps = Backoff(hist[i].reads)
       /\ hist[i].read = "ok" => hist[i].sleeps = Backoff(hist[i].reads - 1)
       /\ hist[i].read = "None"
          => /\ hist[i].reads = 3
             /\ hist[i].sleeps = <<1, 2>>
             /\ hist[i].decode = "" /\ hist[i].transform = ""
             /\ hist[i].writes = 0 /\ hist[i].written = None
             /\ Finished(i)
       /\ (i = idx /\ pc = "read") => hist[i].reads = read_attempt
       /\ (i = idx /\ pc \in {"decode", "transform", "upload"}) => hist[i].read = "ok"
  /\ uploaded_count = Cardinality(UploadedFiles)
  /\ pc = "done" => \A i \in DOMAIN hist : hist[i].started = 1

\* the first file's read returned None after three attempts and the second
\* file was then read and uploaded
C6_Witness ==
  /\ pc = "done"
  /\ Len(hist) = 2
  /\ hist[1].read = "None" /\ hist[1].reads = 3
  /\ hist[2].read = "ok" /\ hist[2].write = "ok"
  /\ uploaded_count = 1

\* the first .csv entry of the archive does not open with ZIP_PASSWORD
WrongPassphrase(name) ==
  LET zip == ArchiveOf(name)
  IN /\ zip.readable
     /\ \E k \in 1..Len(zip.entries) :
          /\ EndsWith(zip.entries[k].name, DotCsv)
          /\ \A j \in 1..(k - 1) : ~EndsWith(zip.entries[j].name, DotCsv)
          /\ zip.entries[k].pwd # ZIP_PASSWORD

\* C7: wrong passphrase.  Decoding an archive whose selected entry does not
\* open with the passphrase reports the password-specific diagnostic and
\* returns no blob; the file is neither transformed nor written and does not
\* count as uploaded, and the run goes on to the remaining archives and
\* returns normally.
C7_WrongPassphraseSkipped ==
  /\ \A i \in DOMAIN hist :
       /\ (WrongPassphrase(matching_files[i]) /\ hist[i].decode # "")
          => hist[i].decode = "incorrect_password"
       /\ hist[i].decode = "incorrect_password"
          => /\ WrongPassphrase(matching_files[i])
             /\ hist[i].transform = "" /\ hist[i].writes = 0 /\ hist[i].written = None
             /\ Finished(i)
             /\ i \notin UploadedFiles
  /\ csv_buffer # None => hist[idx].decode = "extracted"
  /\ uploaded_count = Cardinality(UploadedFiles)
  /\ (pc = "done" /\ \E i \in DOMAIN hist : hist[i].decode = "incorrect_password")
     => \A j \in DOMAIN hist : hist[j].started = 1

\* the first file had the wrong passphrase and the second was uploaded
C7_Witness ==
  /\ pc = "done"
  /\ Len(hist) = 2
  /\ hist[1].decode = "incorrect_password"
  /\ hist[2].write = "ok"
  /\ uploaded_count = 1

\* a name of the source directory that carries the group identifier, in any
\* case, and ends in .zip
NameMatches(f) ==
  /\ Len(f) >= 4
  /\ <<f[Len(f) - 3], f[Len(f) - 2], f[Len(f) - 1], f[Len(f)]>> = <<".", "z", "i", "p">>
  /\ \E i \in 1..Len(f) : f[i] \in {"g", "G"}

Listed == "list" \in store_ops

\* C8: empty or unlistable source.  When the source directory cannot be
\* listed or none of its names matches, the listing is empty and the run ends
\* at once: nothing is read, decoded, looked up or written, nothing is
\* uploaded, main() returns without a fatal error and the connections it
\* opened are released.
C8_EmptySourceEndsRun ==
  /\ (Listed /\ (~DirExists(dirs, SourcePath)
                 \/ \A f \in Range(FilesIn(files, SourcePath)) : ~NameMatches(f)))
     => matching_files = <<>>
  /\ (Listed /\ matching_files = <<>>)
     => /\ pc \in {"finally", "done"}
        /\ ~exc
        /\ store_ops \subseteq {"ensure", "list"}
        /\ hist = <<>>
        /\ zip_buffer = None /\ csv_buffer = None /\ updated_content = None
        /\ uploaded_count = 0
        /\ pc = "done" => \A r \in Resources : conn[r].opened = 1 /\ conn[r].closed = 1

\* the source directory holds names, none matches, and main() has returned
C8_Witness ==
  /\ pc = "done"
  /\ Listed
  /\ FilesIn(files, SourcePath) # <<>>
  /\ matching_files = <<>>
  /\ conn["mongo"].closed = 1

\* C9: at-most-once processing.  Every archive of the listing is listed
\* once, its pipeline is started at most once and at most one write is issued
\* for it; the archives are taken in listing order and none is taken up again
\* after the loop has moved on.
C9_AtMostOnce ==
  /\ \A i, j \in DOMAIN matching_files : matching_files[i] = matching_files[j] => i = j
  /\ \A i \in DOMAIN hist :
       /\ hist[i].started <= 1
       /\ hist[i].writes <= 1
       /\ hist[i].reads <= 3
       /\ hist[i].started = 1 => i <= idx
       /\ i < idx => hist[i].started = 1
       /\ (i > idx \/ hist[i].started = 0)
          => hist[i] = NoHist

\* a run over two archives in which the first failed at its write and the
\* second was then processed
C9_Witness ==
  /\ pc = "done"
  /\ Len(hist) = 2
  /\ hist[1].write = "failed" /\ hist[1].writes = 1
  /\ hist[2].started = 1 /\ hist[2].writes = 1

\* the output table of a transform that returned content
Returned == fn = "returned_content" /\ ValueOf(fn_ret).updated_content # None
OutTable == ValueOf(ValueOf(fn_ret).updated_content)
InTable == ValueOf(fn_table)

\* restricted mode: the output has no email column, or only empty email cells
RestrictedNoEmail ==
  (Returned /\ OnlyDob(fn_filename))
  => \/ "email" \notin Range(OutTable.header)
     \/ \A i \in 1..Len(OutTable.lines) :
          OutTable.lines[i][ColumnIndex(OutTable.header, "email")] = <<>>

\* the looked-up value or the empty string
LookedUpOrEmpty(store, u, attr, value) ==
  value = <<>> \/ ExpectedAttr(store, u, attr, value)

\* unrestricted mode: both columns in every row, each the looked-up value of
\* the row's identifier or the empty string
UnrestrictedBothColumns ==
  (Returned /\ ~OnlyDob(fn_filename))
  => /\ {"dob", "email"} \subseteq Range(OutTable.header)
     /\ \A i \in 1..Len(OutTable.lines) :
          LET u == Strip(InTable.lines[i][ColumnIndex(InTable.header, "userid")])
          IN /\ Len(OutTable.lines[i]) = Len(OutTable.header)
             /\ LookedUpOrEmpty(mongo_store, u, "dob",
                                OutTable.lines[i][ColumnIndex(OutTable.header, "dob")])
             /\ LookedUpOrEmpty(mongo_store, u, "email",
                                OutTable.lines[i][ColumnIndex(OutTable.header, "email")])

\* C11: restricted mode.  For a file name containing '_dob_only_' in any case
\* no output row of process_csv_from_memory has a non-empty email; for a name
\* without the marker every output row has a dob and an email column, each
\* holding the looked-up value of the row's identifier or the empty string.
C11_RestrictedMode == RestrictedNoEmail /\ UnrestrictedBothColumns

\* the archives of the run: discovered by the listing, attempted by the loop,
\* and those whose read, decode, transform and write all succeeded
Discovered == 1..Len(matching_files)
Attempted == {i \in 1..Len(hist) : hist[i].started > 0}
AllStagesSucceeded ==
  {i \in 1..Len(hist) : /\ hist[i].read = "ok"
                        /\ hist[i].decode = "extracted"
                        /\ hist[i].transform = "processed"
                        /\ hist[i].write = "ok"}

\* C12: run counts.  In every state 0 <= uploaded_count <= attempted <=
\* discovered, every attempted archive is attempted once, and uploaded_count
\* is the number of archives whose read, decode, transform and write all
\* succeeded: an archive adds exactly one when they did and nothing otherwise.
C12_RunCounts ==
  /\ 0 <= uploaded_count
  /\ uploaded_count <= Cardinality(Attempted)
  /\ Attempted \subseteq Discovered
  /\ \A i \in Attempted : hist[i].started = 1
  /\ uploaded_count = Cardinality(AllStagesSucceeded)

C12_Witness ==
  /\ pc = "done"
  /\ Len(matching_files) = MaxFiles
  /\ Cardinality(Attempted) = MaxFiles
  /\ uploaded_count = 1

\* the directory remote_dir named when ensure_sftp_dir was first called
EnsuredPath == ResolvePath(ValueOf(fn_ret).cwd_before, fn_remote_dir)

\* after the first call the path exists when the server permits creation
EnsureCreates ==
  (fn \in {"ensured_once", "ensured_twice"} /\ mkdir_permitted)
  => DirExists(ValueOf(fn_ret).dirs_after, EnsuredPath)

\* the second call creates nothing
EnsureIdempotent == fn = "ensured_twice" => dirs = ValueOf(fn_ret).dirs_after

IsAbsolute(path) == path # <<>> /\ Head(path) = "/"

\* C13: ensure_sftp_dir is idempotent and creating.  For any directory tree
\* and path, after ensure_sftp_dir(path) on a server that permits creation the
\* path exists, and a second call right after it leaves the server's
\* directories unchanged.
C13_EnsureIdempotentCreating == EnsureCreates /\ EnsureIdempotent

\* the same for absolute paths only
EnsureAbsolute == IsAbsolute(fn_remote_dir) => C13_EnsureIdempotentCreating

\* the columns of the parsed input that the transform does not derive
NotDerived(c) == c \notin {"dob", "email"}
InputColumns == SelectSeq(InTable.header, NotDerived)

\* C14: row preservation.  The output of process_csv_from_memory has as many
\* rows as the parsed input; row i holds, in the original columns, the values
\* of input row i in the same relative order; dob follows all original
\* columns, and email, when written, is the last column.
C14_RowPreservation ==
  Returned
  => /\ Len(OutTable.lines) = Len(InTable.lines)
     /\ OutTable.header = InputColumns \o <<"dob">>
                          \o (IF "email" \in Range(OutTable.header) THEN <<"email">> ELSE <<>>)
     /\ \A i \in 1..Len(OutTable.lines) :
          /\ Len(OutTable.lines[i]) = Len(OutTable.header)
          /\ \A k \in 1..Len(InputColumns) :
               OutTable.lines[i][k] =
                 InTable.lines[i][ColumnIndex(InTable.header, InputColumns[k])]

C14_Witness ==
  /\ Returned
  /\ Len(OutTable.lines) = MaxRows
  /\ InTable.header = <<"userid", "email", "name">>
  /\ OutTable.header = <<"userid", "name", "dob", "email">>
  /\ InTable.lines[1] # InTable.lines[2]

\* the stages of one archive in the order of the loop body
StageOrder == <<"read", "decode", "transform", "derive", "write">>

\* the stages of archive i are over: one of them failed or its write ended
StagesOver(i) ==
  \/ hist[i].read = "None"
  \/ hist[i].decode \notin {"", "extracted"}
  \/ hist[i].transform \notin {"", "processed"}
  \/ hist[i].write # ""

\* C15: per-file stage ordering.  The stages of an archive start in the order
\* read, decode, transform, derive output name, write; a stage starts only
\* when all earlier stages of the archive succeeded, none starts after a
\* failed one, and no stage of a later archive starts before the stages of
\* the earlier archive are over.
C15_StageOrdering ==
  /\ \A i \in DOMAIN hist :
       LET st == hist[i].stages
       IN /\ Len(st) <= Len(StageOrder)
          /\ st = SubSeq(StageOrder, 1, Len(st))
          /\ Len(st) >= 2 => hist[i].read = "ok"
          /\ Len(st) >= 3 => hist[i].decode = "extracted"
          /\ Len(st) >= 4 => hist[i].transform = "processed"
          /\ hist[i].read = "None" => Len(st) = 1
  /\ pc = "decode" => hist[idx].read = "ok"
  /\ pc = "transform" => hist[idx].decode = "extracted"
  /\ pc = "upload" => hist[idx].transform = "processed"
  /\ \A i, j \in DOMAIN hist :
       (i < j /\ hist[j].stages # <<>>) => (hist[i].stages # <<>> /\ StagesOver(i))

C15_Witness ==
  /\ pc = "done"
  /\ Len(hist) = MaxFiles
  /\ hist[1].stages = <<"read", "decode">>
  /\ hist[1].decode = "incorrect_password"
  /\ hist[MaxFiles].stages = StageOrder

\* the phases of a run: Connecting, Listing (with the directory checks before
\* it), ProcessingFiles, Finalizing; the fatal connection abort
Phase(p) ==
  CASE p \in {"start", "sftp_connect"} -> 1
    [] p \in {"ensure_source", "ensure_output", "list"} -> 2
    [] p \in {"read", "decode", "transform", "upload"} -> 3
    [] p \in {"finally", "done", "raised"} -> 4
    [] p = "exited" -> 5

PhaseOrder ==
  /\ Phase(pc') >= Phase(pc)
  /\ pc' = "exited" => Phase(pc) = 1

\* C16: termination.  When every remote call returns, every run of main()
\* eventually has gone through its finally block or has ended with the fatal
\* connection abort, whatever transient failures occur, and the run passes
\* through Connecting, Listing, ProcessingFiles, Finalizing only in that order.
C16_Termination == <>RunEnded /\ [][PhaseOrder]_vars

C16_Witness ==
  /\ pc = "done"
  /\ Len(hist) = 2
  /\ \E i \in DOMAIN hist : hist[i].read = "None"
  /\ \E i \in DOMAIN hist : hist[i].write = "ok"

\* the call of get_user_data_from_mongo is over
UserDataCallOver == fn \in {"returned_user_data", "raised_user_data", "exited_user_data"}

\* the table does not pass the structure check: no userid column or no row
InvalidStructure(t) == ~t.parsable \/ "userid" \notin Range(t.header) \/ t.lines = <<>>

\* the trimmed identifiers of the rows of table t
TrimmedIds(t) ==
  {Strip(t.lines[i][ColumnIndex(t.header, "userid")]) : i \in 1..Len(t.lines)}

\* C17: batched lookup.  One transform queries the reference store at most
\* once, with the distinct trimmed identifiers of the table, however many rows
\* it has; a table that fails the structure check causes no query; and
\* get_user_data_from_mongo called with no identifiers returns the empty
\* mapping without opening a connection or issuing a query.
C17_BatchedLookup ==
  /\ fn = "returned_content"
     => LET queries == ValueOf(fn_ret).queries
        IN /\ Len(queries) <= 1
           /\ InvalidStructure(InTable) => queries = <<>>
           /\ queries # <<>>
              => /\ Range(queries[1]) = TrimmedIds(InTable)
                 /\ \A a, b \in 1..Len(queries[1]) : queries[1][a] = queries[1][b] => a = b
  /\ (UserDataCallOver /\ fn_userids = <<>>)
     => /\ fn = "returned_user_data"
        /\ ValueOf(fn_ret) = EmptyDict
        /\ conn = IF fn_client = "supplied" THEN CallerConn ELSE NoConn
        /\ "query" \notin store_ops

C17_Witness ==
  /\ fn = "returned_content"
  /\ Len(InTable.lines) = MaxRows
  /\ ValueOf(fn_ret).queries = << << <<"1">> >> >>

\* C18: owned and borrowed connection.  get_user_data_from_mongo never closes
\* a connection its caller supplied; a connection it opened itself is closed
\* exactly once before the call ends, on every path, also when the query
\* fails; and the call returns a mapping with every requested identifier or no
\* mapping at all.
C18_OwnedBorrowedConnection ==
  UserDataCallOver
  => /\ fn_client = "supplied" => conn = CallerConn
     /\ fn_client = "None"
        => /\ conn["mongo"].opened <= 1
           /\ conn["mongo"].closed = conn["mongo"].opened
     /\ \/ fn_ret = None
        \/ {Strip(u) : u \in Range(fn_userids)} \subseteq DOMAIN ValueOf(fn_ret)

\* C19: working-directory invariant.  Every read_file_from_sftp of the loop
\* is issued while the session's current directory is the source directory,
\* whatever ensure, list and upload calls came before it, also when the
\* output directory is another one.
C19_ReadsInSourceDirectory == pc = "read" => cwd = SourcePath

\* the positions of the .csv entries of an archive in listing order
CsvPositions(zip) == {k \in 1..Len(zip.entries) : EndsWith(zip.entries[k].name, DotCsv)}
FirstCsvPosition(zip) ==
  CHOOSE k \in CsvPositions(zip) : \A j \in CsvPositions(zip) : k <= j

\* C20: payload selection.  Decoding an archive without a .csv entry returns
\* no blob, and the file is skipped while the run goes on; for an archive with
\* one or more .csv entries the entry extracted is the first .csv entry in
\* listing order, and on success the pair returned is that entry's content and
\* its internal name; when that entry does not open, no other entry is taken.
C20_PayloadSelection ==
  \A i \in DOMAIN hist :
    hist[i].decode # ""
    => LET zip == ArchiveOf(matching_files[i])
       IN /\ (zip.readable /\ CsvPositions(zip) = {})
             => /\ hist[i].decode = "no_csv"
                /\ hist[i].decoded = None
                /\ hist[i].stages = <<"read", "decode">>
                /\ ~exc /\ pc # "raised"
                /\ i < idx \/ pc \in {"finally", "done"}
          /\ hist[i].decoded # None
             => /\ zip.readable /\ CsvPositions(zip) # {}
                /\ LET entry == zip.entries[FirstCsvPosition(zip)]
                   IN /\ ValueOf(hist[i].decoded).csv_buffer = entry.content
                      /\ ValueOf(hist[i].decoded).csv_name = entry.name
                      /\ entry.pwd = ZIP_PASSWORD
          /\ (zip.readable /\ CsvPositions(zip) # {}
              /\ zip.entries[FirstCsvPosition(zip)].pwd = ZIP_PASSWORD
              /\ zip.entries[FirstCsvPosition(zip)].damage = "none")
             => hist[i].decoded # None
          /\ pc = "transform" /\ i = idx => csv_buffer = Some(ValueOf(hist[i].decoded).csv_buffer)

\* an archive without a .csv entry was skipped and the first of two .csv
\* entries, listed after another entry, was extracted from the next archive
C20_Witness ==
  /\ pc = "done"
  /\ matching_files = <<NameNoCsv, NameG2>>
  /\ hist[1].decode = "no_csv"
  /\ hist[2].decoded = Some([csv_buffer |-> TableB, csv_name |-> <<"a">> \o DotCsv])
  /\ hist[2].write = "ok"

====
